---- MODULE Spec2Model ----
(***************************************************************************)
(* Model of src/analytics/main.py: the bootstrap of the analytics service. *)
(* A process imports the module (load_dotenv, route registration), reads   *)
(* ANALYTICS_PORT, converts it with int(), and hands the port to           *)
(* uvicorn.run, which binds 0.0.0.0:<port> and serves GET / and            *)
(* GET /health until it is shut down.                                      *)
(*                                                                         *)
(* Strings that the code parses are sequences of one-character strings.    *)
(* An optional value (None in Python) is a sequence of length 0 or 1.      *)
(***************************************************************************)
EXTENDS Integers, Sequences, FiniteSets, TLC

\* Total number of requests recorded in the response log.
MaxReq == 3

\* The instances of the script that may be started.
Procs == {1, 2}

----------------------------------------------------------------------------
\* Values of ANALYTICS_PORT.

\* os.getenv finds no ANALYTICS_PORT.
Absent == <<"<absent>">>

S9999 == <<"9", "9", "9", "9">>
S0 == <<"0">>
S80 == <<"8", "0">>
S65536 == <<"6", "5", "5", "3", "6">>
SMinus1 == <<"-", "1">>
SEmpty == <<>>
SAbc == <<"a", "b", "c">>
SPadded == <<" ", "9", "9", "9", "9", "\n">>
SUnderscore == <<"9", "_", "9">>
SBadUnderscore == <<"9", "_", "_", "9">>
SPlus == <<"+">>

\* What the launching environment may hold for ANALYTICS_PORT.
EnvValues ==
    {Absent, S9999, S0, S80, S65536, SMinus1, SEmpty, SAbc, SPadded,
     SUnderscore, SBadUnderscore, SPlus}

\* What a .env file in the working directory may hold for ANALYTICS_PORT.
DotenvValues == {Absent, S9999}

\* What ANALYTICS_PORT may be changed to while the process runs.
EnvUpdates == {Absent, S80}

----------------------------------------------------------------------------
\* int(): Python's conversion of a str to an integer, base 10.

Digits == {"0", "1", "2", "3", "4", "5", "6", "7", "8", "9"}

Whitespace == {" ", "\t", "\n", "\r"}

DigitVal(c) ==
    CASE c = "0" -> 0 [] c = "1" -> 1 [] c = "2" -> 2 [] c = "3" -> 3
      [] c = "4" -> 4 [] c = "5" -> 5 [] c = "6" -> 6 [] c = "7" -> 7
      [] c = "8" -> 8 [] c = "9" -> 9

RECURSIVE LStrip(_)
LStrip(s) ==
    IF s # <<>> /\ Head(s) \in Whitespace THEN LStrip(Tail(s)) ELSE s

RECURSIVE RStrip(_)
RStrip(s) ==
    IF s # <<>> /\ s[Len(s)] \in Whitespace
    THEN RStrip(SubSeq(s, 1, Len(s) - 1))
    ELSE s

\* str.strip(): int() ignores leading and trailing whitespace.
Strip(s) == RStrip(LStrip(s))

HasSign(s) == s # <<>> /\ Head(s) \in {"+", "-"}

\* The digits part: non-empty, digits with single underscores between them.
DigitsOk(d) ==
    /\ d # <<>>
    /\ \A i \in 1..Len(d) : d[i] \in Digits \cup {"_"}
    /\ d[1] \in Digits
    /\ d[Len(d)] \in Digits
    /\ \A i \in 1..(Len(d) - 1) : ~(d[i] = "_" /\ d[i + 1] = "_")

\* The value of a digits part, read left to right, underscores skipped.
RECURSIVE Magnitude(_, _)
Magnitude(d, acc) ==
    IF d = <<>> THEN acc
    ELSE IF Head(d) = "_" THEN Magnitude(Tail(d), acc)
    ELSE Magnitude(Tail(d), 10 * acc + DigitVal(Head(d)))

\* A conversion that returned n.
Ok(n) == [ok |-> TRUE, val |-> n, exc |-> ""]

\* int(s) raised ValueError.
ValueError == [ok |-> FALSE, val |-> 0, exc |-> "ValueError"]

\* int(s) for a str s: whitespace stripped, an optional sign, the digits.
PyInt(s) ==
    LET t == Strip(s)
        d == IF HasSign(t) THEN Tail(t) ELSE t
    IN  IF DigitsOk(d)
        THEN Ok((IF HasSign(t) /\ Head(t) = "-" THEN -1 ELSE 1) * Magnitude(d, 0))
        ELSE ValueError

\* The default of os.getenv("ANALYTICS_PORT", 8001).
DefaultPort == 8001

\* Variant: os.environ["ANALYTICS_PORT"] in place of os.getenv with a default.
PortFromEnv_NoDefault(e) ==
    IF e = Absent THEN [ok |-> FALSE, val |-> 0, exc |-> "KeyError"] ELSE PyInt(e)

\* Variant: another default port.
PortFromEnv_WrongDefault(e) == IF e = Absent THEN Ok(8000) ELSE PyInt(e)

\* Variant: a value int() rejects falls back to the default.
PortFromEnv_Fallback(e) ==
    IF e = Absent \/ ~PyInt(e).ok THEN Ok(DefaultPort) ELSE PyInt(e)

\* int(os.getenv("ANALYTICS_PORT", 8001)): the default is already an int.
PortFromEnv(e) == IF e = Absent THEN Ok(DefaultPort) ELSE PyInt(e)

----------------------------------------------------------------------------
\* The routes.

\* FastAPI(title=...), repeated in root().
ServiceName == "Eyes Café Analytics Service"

\* Variant: root() reporting another status.
root_stopped == <<<<"message", ServiceName>>, <<"status", "stopped">>>>

\* root(): the dict it returns, as its items in insertion order.
root == <<<<"message", ServiceName>>, <<"status", "running">>>>

\* Variant: health_check() reporting another status.
health_check_degraded == <<<<"status", "degraded">>>>

\* health_check(): the dict it returns.
health_check == <<<<"status", "healthy">>>>

Paths == {"/", "/health"}

\* The route table built by @app.get("/") and @app.get("/health").
Route(path) == IF path = "/" THEN root ELSE health_check

\* The JSON text of a dict of strings, token by token.
RECURSIVE JsonItems(_)
JsonItems(items) ==
    IF items = <<>> THEN <<>>
    ELSE <<"\"", Head(items)[1], "\"", ":", "\"", Head(items)[2], "\"">>
         \o (IF Tail(items) = <<>> THEN <<>> ELSE <<",">>)
         \o JsonItems(Tail(items))

JsonDumps(items) == <<"{">> \o JsonItems(items) \o <<"}">>

\* The value of a key in a JSON text produced by JsonDumps (<<>> if missing).
RECURSIVE JsonGet(_, _)
JsonGet(body, key) ==
    IF Len(body) < 7 THEN <<>>
    ELSE IF body[1] = "\"" /\ body[2] = key /\ body[3] = "\"" /\ body[4] = ":"
         THEN <<body[6]>>
         ELSE JsonGet(Tail(body), key)

\* FastAPI's answer for a handler that returned `content`.
JSONResponse(content) ==
    [status |-> 200, ctype |-> "application/json", body |-> JsonDumps(content)]

----------------------------------------------------------------------------
\* The listener: uvicorn.run(app, host="0.0.0.0", port=port).

\* The largest TCP port; bind() raises OverflowError outside 0..MaxPort.
MaxPort == 65535

\* Ports below this one need privilege to bind (EACCES otherwise).
FirstUnprivilegedPort == 1024

\* Ports the operating system hands out for a bind to port 0.
EphemeralPorts == {49152, 49153}

\* Ports another program may already be listening on.
OtherPrograms == {{}, {9999}}

VARIABLES
    shellEnv,    \* ANALYTICS_PORT in the environment the instances are launched from
    dotenv,      \* ANALYTICS_PORT in the .env file
    privileged,  \* whether the instances may bind ports below 1024
    others,      \* ports held by other programs
    pc,          \* pc[p]: where instance p is in the script
    environ,     \* environ[p]: ANALYTICS_PORT in os.environ of p
    port,        \* port[p]: the local `port`, <<>> until assigned
    sock,        \* sock[p]: the port p's listener is bound to, <<>> if none
    setting,     \* setting[p]: what os.getenv found at the read, <<>> before it
    started,     \* started[p]: uvicorn's Server.started
    error,       \* error[p]: the exception that ended p, "" if none
    exitStatus,  \* exitStatus[p]: the process exit status, <<>> while it runs
    log          \* the responses sent so far, oldest first

vars ==
    <<shellEnv, dotenv, privileged, others, pc, environ, setting, port, sock,
      started, error, exitStatus, log>>

world == <<shellEnv, dotenv, privileged, others>>

\* Ports that are being listened on, by an instance or by another program.
PortsInUse == others \cup {sock[p][1] : p \in {q \in Procs : sock[q] # <<>>}}

\* Variant: a listener with SO_REUSEPORT, which a port in use does not stop.
BindError_ReusePort(n, used, priv) ==
    IF n < 0 \/ n > MaxPort THEN "OverflowError"
    ELSE IF n = 0 THEN (IF EphemeralPorts \ used = {} THEN "OSError" ELSE "")
    ELSE IF n < FirstUnprivilegedPort /\ ~priv THEN "OSError"
    ELSE ""

\* The exception of binding port n while `used` are taken; "" when it binds.
BindError(n, used, priv) ==
    IF n < 0 \/ n > MaxPort THEN "OverflowError"
    ELSE IF n = 0 THEN (IF EphemeralPorts \ used = {} THEN "OSError" ELSE "")
    ELSE IF n < FirstUnprivilegedPort /\ ~priv THEN "OSError"
    ELSE IF n \in used THEN "OSError"
    ELSE ""

\* The ports a successful bind of port n may end up on (port 0: any free one).
BoundPorts(n, used) == IF n = 0 THEN EphemeralPorts \ used ELSE {n}

\* Variant: the failure swallowed, the script ending normally.
ExitCode_Zero(exc) == 0

\* The exit status: 0 at the end of the script, 1 after an uncaught exception
\* or uvicorn's sys.exit(1).
ExitCode(exc) == IF exc = "" THEN 0 ELSE 1

Init ==
    /\ shellEnv \in EnvValues
    /\ dotenv \in DotenvValues
    /\ privileged \in BOOLEAN
    /\ others \in OtherPrograms
    /\ pc = [p \in Procs |-> "idle"]
    /\ environ = [p \in Procs |-> Absent]
    /\ setting = [p \in Procs |-> <<>>]
    /\ port = [p \in Procs |-> <<>>]
    /\ sock = [p \in Procs |-> <<>>]
    /\ started = [p \in Procs |-> FALSE]
    /\ error = [p \in Procs |-> ""]
    /\ exitStatus = [p \in Procs |-> <<>>]
    /\ log = <<>>

\* The process is created; it inherits the launching environment.
Start(p) ==
    /\ pc[p] = "idle"
    /\ pc' = [pc EXCEPT ![p] = "import"]
    /\ environ' = [environ EXCEPT ![p] = shellEnv]
    /\ UNCHANGED <<world, setting, port, sock, started, error, exitStatus, log>>

\* load_dotenv(): a variable of .env is set unless os.environ has it already.
LoadDotenv(p) ==
    /\ pc[p] = "import"
    /\ pc' = [pc EXCEPT ![p] = "main"]
    /\ environ' = [environ EXCEPT ![p] = IF @ = Absent THEN dotenv ELSE @]
    /\ UNCHANGED <<world, setting, port, sock, started, error, exitStatus, log>>

\* The process ends: its memory is gone, its listener closed.
Exit(p, exc) ==
    /\ pc' = [pc EXCEPT ![p] = "exited"]
    /\ exitStatus' = [exitStatus EXCEPT ![p] = <<ExitCode(exc)>>]
    /\ error' = [error EXCEPT ![p] = exc]
    /\ environ' = [environ EXCEPT ![p] = Absent]
    /\ sock' = [sock EXCEPT ![p] = <<>>]

\* port = int(os.getenv("ANALYTICS_PORT", 8001)); an exception is not caught.
ReadPort(p) ==
    /\ pc[p] = "main"
    /\ setting' = [setting EXCEPT ![p] = <<environ[p]>>]
    /\ LET r == PortFromEnv(environ[p])
       IN  IF r.ok
           THEN /\ port' = [port EXCEPT ![p] = <<r.val>>]
                /\ pc' = [pc EXCEPT ![p] = "run"]
                /\ UNCHANGED <<environ, sock, error, exitStatus>>
           ELSE /\ Exit(p, r.exc)
                /\ UNCHANGED port
    /\ UNCHANGED <<world, started, log>>

\* uvicorn.run: bind the listener, or end the process with a failure status.
Run(p) ==
    /\ pc[p] = "run"
    /\ LET exc == BindError(port[p][1], PortsInUse, privileged)
       IN  IF exc = ""
           THEN /\ \E n \in BoundPorts(port[p][1], PortsInUse) :
                       sock' = [sock EXCEPT ![p] = <<n>>]
                /\ started' = [started EXCEPT ![p] = TRUE]
                /\ pc' = [pc EXCEPT ![p] = "serving"]
                /\ UNCHANGED <<environ, error, exitStatus>>
           ELSE /\ Exit(p, exc)
                /\ UNCHANGED started
    /\ UNCHANGED <<world, setting, port, log>>

\* Variant: a handler whose answer depends on the requests before it.
Serve_Counting(p, path) ==
    /\ pc[p] = "serving"
    /\ Len(log) < MaxReq
    /\ log' = Append(log,
                     [proc |-> p, path |-> path,
                      response |-> [JSONResponse(Route(path)) EXCEPT
                                        !.status = 200 + Len(log)]])
    /\ UNCHANGED <<world, pc, environ, setting, port, sock, started, error, exitStatus>>

\* Variant: a handler that reads ANALYTICS_PORT again.
Serve_Reconfigure(p, path) ==
    /\ pc[p] = "serving"
    /\ Len(log) < MaxReq
    /\ log' = Append(log,
                     [proc |-> p, path |-> path,
                      response |-> JSONResponse(Route(path))])
    /\ port' = [port EXCEPT ![p] =
                    IF PortFromEnv(environ[p]).ok
                    THEN <<PortFromEnv(environ[p]).val>> ELSE @]
    /\ UNCHANGED <<world, pc, environ, setting, sock, started, error, exitStatus>>

\* Variant: requests answered by a process that has ended.
Serve_Unbound(p, path) ==
    /\ pc[p] \in {"serving", "exited"}
    /\ Len(log) < MaxReq
    /\ log' = Append(log,
                     [proc |-> p, path |-> path,
                      response |-> JSONResponse(Route(path))])
    /\ UNCHANGED <<world, pc, environ, setting, port, sock, started, error, exitStatus>>

\* A GET request to `path` arrives at p's listener and is answered. The
\* handlers are coroutines without an await: each runs to its end at once.
Serve(p, path) ==
    /\ pc[p] = "serving"
    /\ Len(log) < MaxReq
    /\ log' = Append(log,
                     [proc |-> p, path |-> path,
                      response |-> JSONResponse(Route(path))])
    /\ UNCHANGED <<world, pc, environ, setting, port, sock, started, error, exitStatus>>

\* The serving process is asked to stop; uvicorn.run returns, the script ends.
Shutdown(p) ==
    /\ pc[p] = "serving"
    /\ Exit(p, "")
    /\ UNCHANGED <<world, setting, port, started, log>>

\* ANALYTICS_PORT is changed (or removed) in os.environ of the running p.
SetEnv(p, v) ==
    /\ pc[p] \in {"import", "main", "run", "serving"}
    /\ environ[p] # v
    /\ environ' = [environ EXCEPT ![p] = v]
    /\ UNCHANGED <<world, pc, setting, port, sock, started, error, exitStatus, log>>

Next ==
    \/ \E p \in Procs : Start(p)
    \/ \E p \in Procs : LoadDotenv(p)
    \/ \E p \in Procs : ReadPort(p)
    \/ \E p \in Procs : Run(p)
    \/ \E p \in Procs, path \in Paths : Serve(p, path)
    \/ \E p \in Procs : Shutdown(p)
    \/ \E p \in Procs, v \in EnvUpdates : SetEnv(p, v)

Spec == Init /\ [][Next]_vars

----------------------------------------------------------------------------
\* What the claims speak of, stated apart from the definitions above.

\* The body of GET /health, token by token: {"status":"healthy"}.
HealthyBody == <<"{", "\"", "status", "\"", ":", "\"", "healthy", "\"", "}">>

\* A port number a process may ask for: in 1..65535, and not one that needs a
\* privilege the process lacks.
ValidPort(n) ==
    /\ n \in 1..MaxPort
    /\ (n < FirstUnprivilegedPort => privileged)

\* The integer a value of ANALYTICS_PORT denotes.
IntegerValue(e) ==
    CASE e = S9999 -> 9999
      [] e = S0 -> 0
      [] e = S80 -> 80
      [] e = S65536 -> 65536
      [] e = SMinus1 -> -1
      [] e = SPadded -> 9999
      [] e = SUnderscore -> 99

\* The port the configuration asks for: the value's integer, 8001 when absent.
ConfiguredPort(e) == IF e = Absent THEN 8001 ELSE IntegerValue(e)

\* A decimal integer: an optional sign and one or more digits, possibly with
\* whitespace around it.
RECURSIVE AllDigits(_)
AllDigits(s) == s = <<>> \/ (Head(s) \in Digits /\ AllDigits(Tail(s)))

RECURSIVE IsDecimalInteger(_)
IsDecimalInteger(s) ==
    IF s = <<>> THEN FALSE
    ELSE IF Head(s) \in Whitespace THEN IsDecimalInteger(Tail(s))
    ELSE IF s[Len(s)] \in Whitespace THEN IsDecimalInteger(SubSeq(s, 1, Len(s) - 1))
    ELSE IF Head(s) \in {"+", "-"} THEN Len(s) > 1 /\ AllDigits(Tail(s))
    ELSE AllDigits(s)

\* A decimal integer in which single underscores may stand between digits.
RECURSIVE GroupedDigits(_)
GroupedDigits(s) ==
    /\ s # <<>>
    /\ Head(s) \in Digits
    /\ \/ Len(s) = 1
       \/ GroupedDigits(Tail(s))
       \/ (Len(s) > 2 /\ s[2] = "_" /\ GroupedDigits(SubSeq(s, 3, Len(s))))

RECURSIVE IsGroupedDecimalInteger(_)
IsGroupedDecimalInteger(s) ==
    IF s = <<>> THEN FALSE
    ELSE IF Head(s) \in Whitespace THEN IsGroupedDecimalInteger(Tail(s))
    ELSE IF s[Len(s)] \in Whitespace
         THEN IsGroupedDecimalInteger(SubSeq(s, 1, Len(s) - 1))
    ELSE IF Head(s) \in {"+", "-"} THEN GroupedDigits(Tail(s))
    ELSE GroupedDigits(s)

\* The exceptions of a listener that cannot bind.
BindFailures == {"OSError", "OverflowError"}

\* Instance p's startup ended without a listener.
StartupFailed(p) == pc[p] = "exited" /\ ~started[p]

\* Instance p terminated without ever binding a port or serving.
EndedBeforeBind(p) ==
    /\ pc[p] = "exited"
    /\ error[p] = "ValueError"
    /\ port[p] = <<>>
    /\ sock[p] = <<>>
    /\ ~started[p]
    /\ exitStatus[p] # <<>>
    /\ exitStatus[p][1] # 0

\* The responses of the log sent by p for `path`.
Responses(p, path) ==
    {log[i].response : i \in {j \in 1..Len(log) : log[j].proc = p /\ log[j].path = path}}

----------------------------------------------------------------------------
\* C1: a bind of a valid port that nothing is listening on succeeds and the
\* instance serves on it; every answer to GET /health is 200 with the body
\* {"status":"healthy"}, whatever was answered before it.
C1_HealthAnswers ==
    \A i \in 1..Len(log) :
        log[i].path = "/health" =>
            /\ log[i].response.status = 200
            /\ log[i].response.body = HealthyBody

C1_BindStep ==
    \A p \in Procs :
        ( /\ pc[p] = "run"
          /\ pc'[p] # "run"
          /\ ValidPort(port[p][1])
          /\ port[p][1] \notin PortsInUse )
        => /\ pc'[p] = "serving"
           /\ sock'[p] = port[p]
           /\ started'[p]

C1_StartupServesHealth == [](C1_HealthAnswers) /\ [][C1_BindStep]_vars

C1_Witness ==
    \E p \in Procs :
        /\ pc[p] = "serving"
        /\ ValidPort(port[p][1])
        /\ sock[p] = port[p]
        /\ Len(log) = 3
        /\ log[1].path = "/"
        /\ log[2].path = "/health"
        /\ log[3] = [proc |-> p, path |-> "/health",
                     response |-> [status |-> 200, ctype |-> "application/json",
                                   body |-> HealthyBody]]

\* C2: every answer to GET / is 200 with "status" "running" and "message" the
\* service name, after any earlier requests to either route.
C2_RootAnswers ==
    \A i \in 1..Len(log) :
        log[i].path = "/" =>
            /\ pc[log[i].proc] \in {"serving", "exited"}
            /\ log[i].response.status = 200
            /\ JsonGet(log[i].response.body, "status") = <<"running">>
            /\ JsonGet(log[i].response.body, "message") = <<ServiceName>>

C2_Witness ==
    /\ Len(log) = 3
    /\ log[1].path = "/health"
    /\ log[2].path = "/"
    /\ log[3].path = "/"
    /\ log[3].response.status = 200

\* C3 as stated: the port a listener is bound to is the integer value of
\* ANALYTICS_PORT when it is set, and 8001 when it is absent.
C3_Original ==
    \A p \in Procs :
        sock[p] # <<>> => sock[p][1] = ConfiguredPort(setting[p][1])

\* C3, amended: the same for every value but 0; for 0 the listener is bound to
\* a free port the operating system chose, not to port 0.
C3_BoundPort ==
    \A p \in Procs :
        sock[p] # <<>> =>
            LET n == ConfiguredPort(setting[p][1])
            IN  IF n = 0
                THEN /\ sock[p][1] \in 1..MaxPort
                     /\ sock[p][1] \notin others
                ELSE sock[p][1] = n

C3_Witness ==
    \E p, q \in Procs :
        /\ setting[p] = <<S9999>>
        /\ sock[p] = <<9999>>
        /\ setting[q] = <<Absent>>
        /\ sock[q] = <<8001>>

\* C4: two instances on the same port: they never listen on it at once; a
\* bind attempted while the other holds the port fails and ends the process
\* with a non-zero status; once both have attempted it (the port valid and
\* free of others, neither shut down) exactly one is serving.
C4_OneListener ==
    \A p, q \in Procs :
        p # q =>
            /\ ~(sock[p] # <<>> /\ sock[p] = sock[q])
            /\ ( /\ port[p] # <<>>
                 /\ port[p] = port[q]
                 /\ ValidPort(port[p][1])
                 /\ port[p][1] \notin others
                 /\ pc[p] \in {"serving", "exited"}
                 /\ pc[q] \in {"serving", "exited"}
                 /\ ~(pc[p] = "exited" /\ started[p])
                 /\ ~(pc[q] = "exited" /\ started[q]) )
               => /\ (pc[p] = "serving") # (pc[q] = "serving")
                  /\ (pc[p] = "exited" => exitStatus[p] # <<>> /\ exitStatus[p][1] # 0)

C4_SecondBindStep ==
    \A p, q \in Procs :
        ( /\ p # q
          /\ pc[p] = "run"
          /\ pc'[p] # "run"
          /\ sock[q] # <<>>
          /\ sock[q] = port[p] )
        => /\ pc'[p] = "exited"
           /\ sock'[p] = <<>>
           /\ ~started'[p]
           /\ exitStatus'[p] # <<>>
           /\ exitStatus'[p][1] # 0
           /\ sock'[q] = sock[q]

C4_SamePortExclusion == [](C4_OneListener) /\ [][C4_SecondBindStep]_vars

C4_Witness ==
    \E p, q \in Procs :
        /\ p # q
        /\ port[p] # <<>>
        /\ port[p] = port[q]
        /\ ValidPort(port[p][1])
        /\ port[p][1] \notin others
        /\ pc[p] = "serving"
        /\ sock[p] = port[p]
        /\ pc[q] = "exited"
        /\ error[q] = "OSError"
        /\ exitStatus[q] = <<1>>

\* C5: a request is answered only by an instance whose bind succeeded and
\* that is serving; an instance whose startup failed has answered nothing,
\* and an instance that ended stays ended: no second bind, no serving later.
C5_AnsweredByBound ==
    /\ \A i \in 1..Len(log) : started[log[i].proc]
    /\ \A p \in Procs :
           StartupFailed(p) =>
               /\ sock[p] = <<>>
               /\ \A path \in Paths : Responses(p, path) = {}

C5_Step ==
    /\ log' # log =>
           /\ Len(log') = Len(log) + 1
           /\ SubSeq(log', 1, Len(log)) = log
           /\ pc[log'[Len(log')].proc] = "serving"
           /\ sock[log'[Len(log')].proc] # <<>>
    /\ \A p \in Procs :
           pc[p] = "exited" =>
               /\ pc'[p] = "exited"
               /\ sock'[p] = <<>>
               /\ started'[p] = started[p]
               /\ port'[p] = port[p]
               /\ exitStatus'[p] = exitStatus[p]

C5_NoPartialService == [](C5_AnsweredByBound) /\ [][C5_Step]_vars

C5_Witness ==
    \E p, q \in Procs :
        /\ StartupFailed(p)
        /\ error[p] = "OSError"
        /\ pc[q] = "serving"
        /\ Len(log) = 2
        /\ log[1].proc = q
        /\ log[2].proc = q

\* C6: an ended process has status 0 exactly when it had bound and was shut
\* down; a bind failure or an uncaught startup error gives a non-zero status,
\* and a running process has no status.
C6_ExitStatus ==
    \A p \in Procs :
        /\ (pc[p] = "exited") <=> (exitStatus[p] # <<>>)
        /\ pc[p] = "exited" =>
               /\ (exitStatus[p] = <<0>>) <=> started[p]
               /\ started[p] => error[p] = ""
               /\ error[p] # "" => exitStatus[p][1] # 0

C6_Witness ==
    \E p, q \in Procs :
        /\ pc[p] = "exited"
        /\ started[p]
        /\ exitStatus[p] = <<0>>
        /\ pc[q] = "exited"
        /\ error[q] \in BindFailures
        /\ exitStatus[q] = <<1>>

\* C7 as stated: a startup that fails, fails because the listener could not
\* bind the configured port.
C7_Original ==
    \A p \in Procs :
        StartupFailed(p) => error[p] \in BindFailures /\ port[p] # <<>>

\* C7, amended: there are exactly two error kinds. The read of the port ends
\* in `port` assigned or in a ValueError before any bind; the bind ends in
\* serving or in a bind failure, and it fails only for a port out of range,
\* one that needs privilege, or one in use.
C7_Outcomes ==
    \A p \in Procs :
        /\ pc[p] # "exited" => error[p] = ""
        /\ StartupFailed(p) =>
               \/ error[p] = "ValueError" /\ port[p] = <<>>
               \/ error[p] \in BindFailures /\ port[p] # <<>>

C7_Step ==
    \A p \in Procs :
        /\ (pc[p] = "main" /\ pc'[p] # "main") =>
               \/ pc'[p] = "run" /\ port'[p] # <<>>
               \/ StartupFailed(p)' /\ error'[p] = "ValueError"
        /\ (pc[p] = "run" /\ pc'[p] # "run") =>
               \/ pc'[p] = "serving" /\ sock'[p] # <<>>
               \/ /\ StartupFailed(p)'
                  /\ error'[p] \in BindFailures
                  /\ \/ port[p][1] \notin 0..MaxPort
                     \/ port[p][1] \in PortsInUse
                     \/ port[p][1] \in 1..(FirstUnprivilegedPort - 1) /\ ~privileged

C7_TwoErrorKinds == [](C7_Outcomes) /\ [][C7_Step]_vars

C7_Witness ==
    \E p, q \in Procs :
        /\ StartupFailed(p)
        /\ error[p] = "ValueError"
        /\ StartupFailed(q)
        /\ error[q] \in BindFailures

\* C8: the answers of one instance to one route are all equal, in status,
\* content type and body, whatever was answered in between; the content type
\* is application/json.
C8_SameResponse ==
    /\ \A p \in Procs, path \in Paths : Cardinality(Responses(p, path)) <= 1
    /\ \A i \in 1..Len(log) : log[i].response.ctype = "application/json"

C8_Witness ==
    \E p, q \in Procs :
        /\ Len(log) = 3
        /\ log[1].proc = p
        /\ log[3].proc = p
        /\ log[1].path = log[3].path
        /\ log[2].proc = q
        /\ log[2].path # log[1].path
        /\ log[1].response = log[3].response

\* C9: ANALYTICS_PORT is read once; from then on what was read, `port` and
\* the bound port of the serving instance never change, whether a request is
\* answered (which changes nothing but the log) or the variable is changed.
C9_Step ==
    /\ \A p \in Procs :
           /\ setting[p] # <<>> => setting'[p] = setting[p]
           /\ port[p] # <<>> => port'[p] = port[p]
           /\ (sock[p] # <<>> /\ pc'[p] = "serving") => sock'[p] = sock[p]
    /\ log' # log =>
           UNCHANGED <<world, pc, environ, setting, port, sock, started, error,
                       exitStatus>>

C9_PortImmutable == [][C9_Step]_vars

C9_Witness ==
    \E p \in Procs :
        /\ pc[p] = "serving"
        /\ setting[p] = <<S9999>>
        /\ environ[p] = S80
        /\ port[p] = <<9999>>
        /\ sock[p] = <<9999>>
        /\ Len(log) > 0
        /\ log[Len(log)].proc = p

\* C10 as stated: when ANALYTICS_PORT is set to something that is not a
\* decimal integer, the process ends at the conversion, before any bind.
C10_Original ==
    \A p \in Procs :
        ( /\ setting[p] # <<>>
          /\ setting[p][1] # Absent
          /\ ~IsDecimalInteger(setting[p][1]) )
        => EndedBeforeBind(p)

\* C10, amended: the same for every value that is not a decimal integer even
\* when single underscores between its digits are allowed (int() takes 9_9
\* for 99); there is no fallback to 8001.
C10_ConversionFails ==
    \A p \in Procs :
        ( /\ setting[p] # <<>>
          /\ setting[p][1] # Absent
          /\ ~IsGroupedDecimalInteger(setting[p][1]) )
        => EndedBeforeBind(p)

C10_Witness ==
    \E p \in Procs :
        /\ setting[p] = <<SEmpty>>
        /\ EndedBeforeBind(p)
        /\ exitStatus[p] = <<1>>

====
